---- MODULE Spec2Model ----
(***************************************************************************)
(* A model of internal/auth: the Authenticator of the Spotify OAuth2       *)
(* authorization-code flow (New and its options, AuthURL, Token, Client,   *)
(* TokenSource).                                                           *)
(*                                                                         *)
(* Go values are modelled as follows.                                      *)
(*   - a pointer is a sequence of length 0 (nil) or 1 (the pointee);       *)
(*   - an error is a record [text, chain]: text is the sequence of pieces  *)
(*     its message is made of, chain the sentinels errors.Is finds in it;  *)
(*     the nil error has both empty;                                       *)
(*   - an *http.Client is a record [ptr, Transport, Timeout];              *)
(*   - a context is the sequence of the key/value pairs WithValue added;   *)
(*   - a raw URL query is the sequence of its key=value pairs.             *)
(***************************************************************************)
EXTENDS Naturals, Sequences, FiniteSets, TLC

VARIABLES
    env,     \* the process environment os.Getenv reads
    auth,    \* the caller's *Authenticator: <<>> (nil) or <<a>>
    call,    \* the call in hand: [op, in, out, done]
    prev,    \* the Token call that came before the one in hand
    given,   \* history: the scopes of the latest call that supplied any
    gor      \* the goroutines inside AuthURL, when calls run concurrently

vars == <<env, auth, call, prev, given, gor>>

(***************************************************************************)
(* Bounds of the model.                                                    *)
(***************************************************************************)
MaxOpts == 2          \* options passed to New
MaxParams == 3        \* key=value pairs in a callback's query
NumGoroutines == 2    \* goroutines calling AuthURL concurrently

(***************************************************************************)
(* Small helpers.                                                          *)
(***************************************************************************)
SeqsUpTo(S, n) == UNION {[1..k -> S] : k \in 0..n}

Range(s) == {s[i] : i \in DOMAIN s}

(***************************************************************************)
(* Constants and sentinel errors of the package.                           *)
(***************************************************************************)
AuthURL == "https://accounts.spotify.com/authorize"
TokenURL == "https://accounts.spotify.com/api/token"

NilErr == [text |-> <<>>, chain |-> <<>>]

ErrAuthFailed ==
    [text |-> <<"spotify: authentication failed">>, chain |-> <<"ErrAuthFailed">>]
ErrNoAccessCode ==
    [text |-> <<"spotify: no access code received">>, chain |-> <<"ErrNoAccessCode">>]
ErrStateMismatch ==
    [text |-> <<"spotify: state verification failed">>, chain |-> <<"ErrStateMismatch">>]
ErrMissingClientID ==
    [text |-> <<"spotify: client ID is required but not provided">>,
     chain |-> <<"ErrMissingClientID">>]
ErrMissingClientSec ==
    [text |-> <<"spotify: client secret is required but not provided">>,
     chain |-> <<"ErrMissingClientSec">>]

\* errors.Is(e, target) for a sentinel target
ErrorsIs(e, target) == Head(target.chain) \in Range(e.chain)

(***************************************************************************)
(* HTTP clients.                                                           *)
(***************************************************************************)
DefaultClient == [ptr |-> "http.DefaultClient", Transport |-> "DefaultTransport", Timeout |-> 0]
MockClient == [ptr |-> "mockClient", Transport |-> "MockRoundTripper", Timeout |-> 0]
CallerCtxClient == [ptr |-> "ctxClient", Transport |-> "DefaultTransport", Timeout |-> 0]

\* &http.Client{Timeout: timeout}
TimeoutClient(timeout) ==
    [ptr |-> "&http.Client{Timeout}", Transport |-> "DefaultTransport", Timeout |-> timeout]

(***************************************************************************)
(* New and its options.                                                    *)
(***************************************************************************)
WithClientID(a, id) == [a EXCEPT !.config.ClientID = id]

WithClientSecret(a, secret) == [a EXCEPT !.config.ClientSecret = secret]

WithRedirectURL(a, url) == [a EXCEPT !.config.RedirectURL = url]

WithScopes(a, scopes) == [a EXCEPT !.config.Scopes = scopes]

WithHTTPClient(a, client) == [a EXCEPT !.client = client]

WithTimeout(a, timeout) == WithHTTPClient(a, TimeoutClient(timeout))

\* opt(auth): an Option is a record [name, arg]
ApplyOption(a, opt) ==
    CASE opt.name = "WithClientID" -> WithClientID(a, opt.arg)
      [] opt.name = "WithClientSecret" -> WithClientSecret(a, opt.arg)
      [] opt.name = "WithRedirectURL" -> WithRedirectURL(a, opt.arg)
      [] opt.name = "WithScopes" -> WithScopes(a, opt.arg)
      [] opt.name = "WithHTTPClient" -> WithHTTPClient(a, opt.arg)
      [] opt.name = "WithTimeout" -> WithTimeout(a, opt.arg)

\* for _, opt := range opts { opt(auth) }
RECURSIVE ApplyOptions(_, _)
ApplyOptions(a, opts) ==
    IF opts = <<>> THEN a ELSE ApplyOptions(ApplyOption(a, Head(opts)), Tail(opts))

\* the Authenticator New starts from, before any option is applied
InitialAuthenticator(redirectURL) ==
    [config |-> [ClientID |-> "",
                 ClientSecret |-> "",
                 Endpoint |-> [AuthURL |-> AuthURL, TokenURL |-> TokenURL],
                 RedirectURL |-> redirectURL,
                 Scopes |-> <<>>],
     client |-> DefaultClient]

\* a slip: the environment's value wins over the option's
ResolveCredential_EnvWins(fromEnv, fromOpts) == IF fromEnv # "" THEN fromEnv ELSE fromOpts

\* the credential New settles on: the option's value if it is not empty,
\* the environment's otherwise
ResolveCredential(fromEnv, fromOpts) == IF fromOpts # "" THEN fromOpts ELSE fromEnv

\* a slip: the secret is checked before the identifier
ValidateAuthenticator_SecretFirst(a) ==
    IF a.config.ClientSecret = "" THEN [auth |-> <<>>, err |-> ErrMissingClientSec]
    ELSE IF a.config.ClientID = "" THEN [auth |-> <<>>, err |-> ErrMissingClientID]
    ELSE [auth |-> <<a>>, err |-> NilErr]

\* the validation that ends New: (nil, ErrMissingClientID),
\* (nil, ErrMissingClientSec) or (auth, nil)
ValidateAuthenticator(a) ==
    IF a.config.ClientID = "" THEN [auth |-> <<>>, err |-> ErrMissingClientID]
    ELSE IF a.config.ClientSecret = "" THEN [auth |-> <<>>, err |-> ErrMissingClientSec]
    ELSE [auth |-> <<a>>, err |-> NilErr]

\* New(redirectURL, opts...) in environment e
New(e, redirectURL, opts) ==
    LET a == ApplyOptions(InitialAuthenticator(redirectURL), opts)
        clientID == ResolveCredential(e.SPOTIFY_CLIENT_ID, a.config.ClientID)
        clientSecret == ResolveCredential(e.SPOTIFY_CLIENT_SECRET, a.config.ClientSecret)
    IN  ValidateAuthenticator([a EXCEPT !.config.ClientID = clientID,
                                        !.config.ClientSecret = clientSecret])

(***************************************************************************)
(* AuthURL.                                                                *)
(***************************************************************************)
AccessTypeOffline == [key |-> "access_type", value |-> "offline"]

\* strings.Join(scopes, " "), as the sequence of the pieces of the result
RECURSIVE Join(_)
Join(scopes) ==
    IF scopes = <<>> THEN <<>>
    ELSE IF Len(scopes) = 1 THEN scopes
    ELSE <<Head(scopes), " ">> \o Join(Tail(scopes))

\* config.AuthCodeURL(state, opt): the endpoint and the query parameters the
\* URL carries; redirect_uri, scope and state are set only when not empty
AuthCodeURL(config, state, opt) ==
    LET keys == {"response_type", "client_id", opt.key}
                \cup (IF config.RedirectURL # "" THEN {"redirect_uri"} ELSE {})
                \cup (IF Len(config.Scopes) > 0 THEN {"scope"} ELSE {})
                \cup (IF state # "" THEN {"state"} ELSE {})
    IN  [endpoint |-> config.Endpoint.AuthURL,
         query |-> [k \in keys |->
                      CASE k = "response_type" -> <<"code">>
                        [] k = "client_id" -> <<config.ClientID>>
                        [] k = "redirect_uri" -> <<config.RedirectURL>>
                        [] k = "scope" -> Join(config.Scopes)
                        [] k = "state" -> <<state>>
                        [] k = opt.key -> <<opt.value>>]]

\* a slip: the scopes are used for the URL of this call but never stored
StoreScopes_Never(a, scopes) == a

\* a slip: the scopes are stored without the len(scopes) > 0 test
StoreScopes_Always(a, scopes) == [a EXCEPT !.config.Scopes = scopes]

\* a slip: the scopes are appended to the stored ones
StoreScopes_Append(a, scopes) == [a EXCEPT !.config.Scopes = a.config.Scopes \o scopes]

\* if len(scopes) > 0 { a.config.Scopes = scopes }
StoreScopes(a, scopes) ==
    IF Len(scopes) > 0 THEN [a EXCEPT !.config.Scopes = scopes] ELSE a

\* a.AuthURL(state, scopes...): the Authenticator afterwards and the URL
Authenticator_AuthURL(a, state, scopes) ==
    LET stored == StoreScopes(a, scopes)
    IN  [auth |-> stored, url |-> AuthCodeURL(stored.config, state, AccessTypeOffline)]

(***************************************************************************)
(* Token.                                                                  *)
(***************************************************************************)
\* the values of key in a raw query, in the order they appear
RECURSIVE ValuesOf(_, _)
ValuesOf(rawQuery, key) ==
    IF rawQuery = <<>> THEN <<>>
    ELSE (IF Head(rawQuery).key = key THEN <<Head(rawQuery).value>> ELSE <<>>)
         \o ValuesOf(Tail(rawQuery), key)

\* r.URL.Query(): url.Values, a map from each key present to its values
Query(url) ==
    [k \in {url.RawQuery[i].key : i \in DOMAIN url.RawQuery} |-> ValuesOf(url.RawQuery, k)]

\* values.Get(key): the first value of key, "" when there is none
Get(values, key) == IF key \in DOMAIN values THEN values[key][1] ELSE ""

HTTPClient == "oauth2.HTTPClient"

\* context.WithValue(ctx, key, val)
WithValue(ctx, key, val) == Append(ctx, [key |-> key, val |-> val])

\* ctx.Value(key): the value added last for key, as a pointer
RECURSIVE Value(_, _)
Value(ctx, key) ==
    IF ctx = <<>> THEN <<>>
    ELSE IF ctx[Len(ctx)].key = key THEN <<ctx[Len(ctx)].val>>
    ELSE Value(SubSeq(ctx, 1, Len(ctx) - 1), key)

\* the client oauth2 uses for a context: the one stored under
\* oauth2.HTTPClient, http.DefaultClient when there is none
ContextClient(ctx) ==
    IF Value(ctx, HTTPClient) # <<>> THEN Value(ctx, HTTPClient)[1] ELSE DefaultClient

\* fmt.Errorf("%w: %s", ErrAuthFailed, err)
AuthFailedError(err) ==
    [text |-> ErrAuthFailed.text \o <<": ", err>>,
     chain |-> <<"*fmt.wrapError">> \o ErrAuthFailed.chain]

\* fmt.Errorf("spotify: token exchange failed: %w", err)
ExchangeFailedError(err) ==
    [text |-> <<"spotify: token exchange failed: ">> \o err.text,
     chain |-> <<"*fmt.wrapError">> \o err.chain]

\* a slip: the state is not verified
ValidateCallback_NoStateCheck(values, state) ==
    IF Get(values, "error") # "" THEN AuthFailedError(Get(values, "error"))
    ELSE IF Get(values, "code") = "" THEN ErrNoAccessCode
    ELSE NilErr

\* a slip: the code is checked before the error
ValidateCallback_CodeFirst(values, state) ==
    IF Get(values, "code") = "" THEN ErrNoAccessCode
    ELSE IF Get(values, "error") # "" THEN AuthFailedError(Get(values, "error"))
    ELSE IF Get(values, "state") # state THEN ErrStateMismatch
    ELSE NilErr

\* a slip: the state is verified before the code is checked
ValidateCallback_StateBeforeCode(values, state) ==
    IF Get(values, "error") # "" THEN AuthFailedError(Get(values, "error"))
    ELSE IF Get(values, "state") # state THEN ErrStateMismatch
    ELSE IF Get(values, "code") = "" THEN ErrNoAccessCode
    ELSE NilErr

\* the checks of Token on the callback's values, in their order:
\* the first one that fails gives the error, NilErr when all pass
ValidateCallback(values, state) ==
    IF Get(values, "error") # "" THEN AuthFailedError(Get(values, "error"))
    ELSE IF Get(values, "code") = "" THEN ErrNoAccessCode
    ELSE IF Get(values, "state") # state THEN ErrStateMismatch
    ELSE NilErr

\* a.config.Exchange(ctx, code): the request made of the token endpoint and
\* the answer (token, err) that comes back for it
Exchange(config, ctx, code, answer) ==
    [request |-> [client |-> ContextClient(ctx),
                  url |-> config.Endpoint.TokenURL,
                  grant_type |-> "authorization_code",
                  code |-> code,
                  redirect_uri |-> config.RedirectURL,
                  client_id |-> config.ClientID,
                  client_secret |-> config.ClientSecret],
     token |-> answer.token,
     err |-> answer.err]

\* a slip: the exchange is made with the caller's context as it came
ExchangeCode_CallerContext(a, ctx, code, answer) ==
    LET x == Exchange(a.config, ctx, code, answer)
    IN  IF x.err # NilErr
        THEN [token |-> <<>>, err |-> ExchangeFailedError(x.err), exchanges |-> <<x.request>>]
        ELSE [token |-> x.token, err |-> NilErr, exchanges |-> <<x.request>>]

\* the end of Token, once the callback is valid: the exchange through
\* a.client, and its result passed on or wrapped
ExchangeCode(a, ctx, code, answer) ==
    LET x == Exchange(a.config, WithValue(ctx, HTTPClient, a.client), code, answer)
    IN  IF x.err # NilErr
        THEN [token |-> <<>>, err |-> ExchangeFailedError(x.err), exchanges |-> <<x.request>>]
        ELSE [token |-> x.token, err |-> NilErr, exchanges |-> <<x.request>>]

\* a slip: a code that the call before exchanged with success is refused
Authenticator_Token_SingleUse(a, ctx, state, r, answer) ==
    LET values == Query(r.URL)
        failed == ValidateCallback(values, state)
        used == /\ call.op = "Token"
                /\ call.done
                /\ call.out.err = NilErr
                /\ Get(Query(call.in.r.URL), "code") = Get(values, "code")
    IN  IF failed # NilErr
        THEN [token |-> <<>>, err |-> failed, exchanges |-> <<>>]
        ELSE IF used
        THEN [token |-> <<>>, err |-> ErrNoAccessCode, exchanges |-> <<>>]
        ELSE ExchangeCode(a, ctx, Get(values, "code"), answer)

\* a.Token(ctx, state, r), the token endpoint answering with answer:
\* (token, err) and the exchanges made
Authenticator_Token(a, ctx, state, r, answer) ==
    LET values == Query(r.URL)
        failed == ValidateCallback(values, state)
    IN  IF failed # NilErr
        THEN [token |-> <<>>, err |-> failed, exchanges |-> <<>>]
        ELSE ExchangeCode(a, ctx, Get(values, "code"), answer)

(***************************************************************************)
(* Client and TokenSource.                                                 *)
(***************************************************************************)
\* a.config.TokenSource(ctx, token): refreshes token with the context's client
Authenticator_TokenSource(a, ctx, token) ==
    [token |-> token,
     conf |-> a.config,
     refreshClient |-> ContextClient(WithValue(ctx, HTTPClient, a.client))]

\* a.config.Client(ctx, token): a client over that token source
Authenticator_Client(a, ctx, token) ==
    [Source |-> Authenticator_TokenSource(a, ctx, token),
     Base |-> ContextClient(WithValue(ctx, HTTPClient, a.client)).Transport]

(***************************************************************************)
(* Inputs.                                                                 *)
(***************************************************************************)
Environments ==
    [SPOTIFY_CLIENT_ID : {"", "env-client-id"},
     SPOTIFY_CLIENT_SECRET : {"", "env-client-secret"}]

RedirectURLs == {"", "http://localhost/callback"}

ScopeLists == {<<>>, <<"user-read-email">>, <<"playlist-read-private", "user-library-read">>}

Options ==
    {[name |-> "WithClientID", arg |-> id] : id \in {"", "opt-client-id"}}
    \cup {[name |-> "WithClientSecret", arg |-> s] : s \in {"", "opt-client-secret"}}
    \cup {[name |-> "WithRedirectURL", arg |-> "https://example.org/cb"]}
    \cup {[name |-> "WithScopes", arg |-> s] : s \in {<<>>, <<"user-read-email">>}}
    \cup {[name |-> "WithHTTPClient", arg |-> MockClient]}
    \cup {[name |-> "WithTimeout", arg |-> 30]}

OptionLists == SeqsUpTo(Options, MaxOpts)

\* the state strings callers pass to AuthURL
AuthStates == {"", "state123"}

\* the key=value pairs a callback's query is made of
QueryPairs ==
    {[key |-> "error", value |-> v] : v \in {"", "access_denied"}}
    \cup {[key |-> "code", value |-> v] : v \in {"", "test-code"}}
    \cup {[key |-> "state", value |-> v] : v \in {"test-state", "other-state"}}

RawQueries == SeqsUpTo(QueryPairs, MaxParams)

Request(rawQuery) == [Method |-> "GET", URL |-> [Path |-> "/callback", RawQuery |-> rawQuery]]

\* the states callers expect the callback to carry
ExpectedStates == {"", "test-state"}

\* context.Background(), and a caller's context that carries a client
Background == <<>>
Contexts == {Background, WithValue(Background, HTTPClient, CallerCtxClient)}

\* what config.Exchange may come back with
Tokens ==
    {[AccessToken |-> "test-access-token", RefreshToken |-> "test-refresh-token"],
     [AccessToken |-> "other-access-token", RefreshToken |-> ""]}

RetrieveError == [text |-> <<"oauth2: cannot fetch token">>, chain |-> <<"*oauth2.RetrieveError">>]

Answers ==
    {[token |-> <<t>>, err |-> NilErr] : t \in Tokens}
    \cup {[token |-> <<>>, err |-> RetrieveError]}

\* the callbacks the life of one Authenticator is run with
LifeQueries ==
    {<<>>,
     <<[key |-> "error", value |-> "access_denied"]>>,
     <<[key |-> "code", value |-> "test-code"], [key |-> "state", value |-> "test-state"]>>,
     <<[key |-> "code", value |-> "test-code"], [key |-> "state", value |-> "other-state"]>>}

NoCall == [op |-> "none", in |-> <<>>, out |-> <<>>, done |-> TRUE]

\* the record of a Token call with inputs in, once it has returned
TokenCall(a, in) ==
    [op |-> "Token",
     in |-> in,
     out |-> Authenticator_Token(a, in.ctx, in.state, in.r, in.answer),
     done |-> TRUE]

\* the environment of the package's test, and Authenticators built in it
TestEnv == [SPOTIFY_CLIENT_ID |-> "env-client-id", SPOTIFY_CLIENT_SECRET |-> "env-client-secret"]

BuiltAuthenticators(optionLists) ==
    {New(TestEnv, "http://localhost/callback", opts).auth : opts \in optionLists}

(***************************************************************************)
(* The life of one Authenticator: New, then any calls, one at a time.      *)
(***************************************************************************)
Init ==
    /\ env \in Environments
    /\ auth = <<>>
    /\ call = NoCall
    /\ prev = NoCall
    /\ given = <<>>
    /\ gor = <<>>

DoNew ==
    /\ call.op = "none"
    /\ \E redirectURL \in RedirectURLs, opts \in OptionLists :
         LET r == New(env, redirectURL, opts)
         IN  /\ auth' = r.auth
             /\ call' = [op |-> "New",
                         in |-> [redirectURL |-> redirectURL, opts |-> opts],
                         out |-> r,
                         done |-> TRUE]
             /\ given' = IF r.auth = <<>> THEN <<>> ELSE r.auth[1].config.Scopes
    /\ UNCHANGED <<env, prev, gor>>

DoAuthURL ==
    /\ auth # <<>>
    /\ \E state \in AuthStates, scopes \in ScopeLists :
         LET r == Authenticator_AuthURL(auth[1], state, scopes)
         IN  /\ auth' = <<r.auth>>
             /\ call' = [op |-> "AuthURL",
                         in |-> [state |-> state, scopes |-> scopes],
                         out |-> [url |-> r.url],
                         done |-> TRUE]
             /\ given' = IF Len(scopes) > 0 THEN scopes ELSE given
    /\ UNCHANGED <<env, prev, gor>>

DoToken ==
    /\ auth # <<>>
    /\ \E ctx \in Contexts, state \in ExpectedStates, q \in LifeQueries, answer \in Answers :
         call' = TokenCall(auth[1], [ctx |-> ctx, state |-> state, r |-> Request(q),
                                     answer |-> answer])
    /\ UNCHANGED <<env, auth, prev, given, gor>>

DoClient ==
    /\ auth # <<>>
    /\ \E ctx \in Contexts, token \in Tokens :
         call' = [op |-> "Client",
                  in |-> [ctx |-> ctx, token |-> <<token>>],
                  out |-> Authenticator_Client(auth[1], ctx, <<token>>),
                  done |-> TRUE]
    /\ UNCHANGED <<env, auth, prev, given, gor>>

DoTokenSource ==
    /\ auth # <<>>
    /\ \E ctx \in Contexts, token \in Tokens :
         call' = [op |-> "TokenSource",
                  in |-> [ctx |-> ctx, token |-> <<token>>],
                  out |-> Authenticator_TokenSource(auth[1], ctx, <<token>>),
                  done |-> TRUE]
    /\ UNCHANGED <<env, auth, prev, given, gor>>

Next == DoNew \/ DoAuthURL \/ DoToken \/ DoClient \/ DoTokenSource

Spec == Init /\ [][Next]_vars

(***************************************************************************)
(* One Token call: the inputs are drawn at the start, Token is applied.    *)
(***************************************************************************)
TokenInputs ==
    [ctx : Contexts, state : ExpectedStates, r : {Request(q) : q \in RawQueries},
     answer : Answers]

InitToken ==
    /\ env = TestEnv
    /\ auth \in BuiltAuthenticators({<<>>,
                                     <<[name |-> "WithHTTPClient", arg |-> MockClient]>>,
                                     <<[name |-> "WithTimeout", arg |-> 30]>>})
    /\ call \in {[op |-> "Token", in |-> in, out |-> <<>>, done |-> FALSE] : in \in TokenInputs}
    /\ prev = NoCall
    /\ given = auth[1].config.Scopes
    /\ gor = <<>>

ReturnToken ==
    /\ call.op = "Token"
    /\ ~call.done
    /\ call' = TokenCall(auth[1], call.in)
    /\ UNCHANGED <<env, auth, prev, given, gor>>

NextToken == ReturnToken

SpecToken == InitToken /\ [][NextToken]_vars

(***************************************************************************)
(* Token calls one after the other on one Authenticator.                   *)
(***************************************************************************)
InitRepeat ==
    /\ env = TestEnv
    /\ auth \in BuiltAuthenticators({<<>>, <<[name |-> "WithHTTPClient", arg |-> MockClient]>>})
    /\ call = NoCall
    /\ prev = NoCall
    /\ given = auth[1].config.Scopes
    /\ gor = <<>>

RepeatToken ==
    /\ \E ctx \in Contexts, state \in ExpectedStates, q \in LifeQueries, answer \in Answers :
         call' = TokenCall(auth[1], [ctx |-> ctx, state |-> state, r |-> Request(q),
                                     answer |-> answer])
    /\ prev' = call
    /\ UNCHANGED <<env, auth, given, gor>>

NextRepeat == RepeatToken

SpecRepeat == InitRepeat /\ [][NextRepeat]_vars

(***************************************************************************)
(* Goroutines calling AuthURL on one Authenticator with no synchronization.*)
(* A call is two accesses of a.config.Scopes: the store of line 91 and the *)
(* read inside AuthCodeURL.  Accesses of goroutines whose calls overlap    *)
(* are a data race: a racing read may see the slice as it is in memory, as *)
(* a store in flight leaves it, or torn between the two; a store racing    *)
(* with another store may leave either slice or a torn one.                *)
(***************************************************************************)
Goroutines == 1..NumGoroutines

TornScopes == <<"<torn slice header>">>

InCall(g) == g.pc \in {"storing", "building"}

IdleGoroutine == [pc |-> "idle", state |-> "", scopes |-> <<>>, url |-> <<>>, overlapped |-> FALSE]

InitConc ==
    /\ env = TestEnv
    /\ auth \in BuiltAuthenticators({<<>>,
                                     <<[name |-> "WithScopes", arg |-> <<"user-read-email">>]>>})
    /\ call = NoCall
    /\ prev = NoCall
    /\ given = auth[1].config.Scopes
    /\ gor = [t \in Goroutines |-> IdleGoroutine]

\* goroutine t calls a.AuthURL(state, scopes...)
Enter(t) ==
    /\ gor[t].pc = "idle"
    /\ \E state \in AuthStates \ {""}, scopes \in ScopeLists :
         LET busy == \E u \in Goroutines : InCall(gor[u])
         IN  gor' = [u \in Goroutines |->
                       IF u = t
                       THEN [pc |-> IF Len(scopes) > 0 THEN "storing" ELSE "building",
                             state |-> state,
                             scopes |-> scopes,
                             url |-> <<>>,
                             overlapped |-> busy]
                       ELSE IF InCall(gor[u]) THEN [gor[u] EXCEPT !.overlapped = TRUE]
                       ELSE gor[u]]
    /\ UNCHANGED <<env, auth, call, prev, given>>

\* line 91: a.config.Scopes = scopes
Store(t) ==
    /\ gor[t].pc = "storing"
    /\ \E left \in {gor[t].scopes}
                   \cup (IF \E u \in Goroutines \ {t} : gor[u].pc = "storing"
                         THEN {TornScopes} ELSE {}) :
         auth' = <<StoreScopes(auth[1], left)>>
    /\ gor' = [gor EXCEPT ![t].pc = "building"]
    /\ UNCHANGED <<env, call, prev, given>>

\* line 93: return a.config.AuthCodeURL(state, oauth2.AccessTypeOffline)
Build(t) ==
    /\ gor[t].pc = "building"
    /\ LET inFlight == {gor[u].scopes : u \in {v \in Goroutines \ {t} : gor[v].pc = "storing"}}
       IN  \E seen \in {auth[1].config.Scopes} \cup inFlight
                       \cup (IF inFlight # {} THEN {TornScopes} ELSE {}) :
             gor' = [gor EXCEPT
                       ![t].pc = "done",
                       ![t].url = <<AuthCodeURL([auth[1].config EXCEPT !.Scopes = seen],
                                                gor[t].state, AccessTypeOffline)>>]
    /\ UNCHANGED <<env, auth, call, prev, given>>

NextConc == \E t \in Goroutines : Enter(t) \/ Store(t) \/ Build(t)

SpecConc == InitConc /\ [][NextConc]_vars

(***************************************************************************)
(* What a caller of New supplied, read off the option list alone.          *)
(***************************************************************************)
\* the argument of the last option called name in opts, "" when there is none
RECURSIVE Supplied(_, _)
Supplied(opts, name) ==
    IF opts = <<>> THEN ""
    ELSE IF opts[Len(opts)].name = name THEN opts[Len(opts)].arg
    ELSE Supplied(SubSeq(opts, 1, Len(opts) - 1), name)

Count(opts, name) == Cardinality({i \in DOMAIN opts : opts[i].name = name})

\* the value of a query parameter of a URL AuthCodeURL built, <<>> when absent
Param(url, key) == IF key \in DOMAIN url.query THEN url.query[key] ELSE <<>>

\* url embeds the string v under key (an empty string is embedded in any URL)
Embeds(url, key, v) == v = "" \/ Param(url, key) = <<v>>

\* neither the options nor the environment give the identifier (the secret)
C5_NoID == Supplied(call.in.opts, "WithClientID") = "" /\ env.SPOTIFY_CLIENT_ID = ""

C5_NoSecret ==
    Supplied(call.in.opts, "WithClientSecret") = "" /\ env.SPOTIFY_CLIENT_SECRET = ""

(***************************************************************************)
(* C5: New fails with ErrMissingClientID and returns no Authenticator when *)
(* neither the options nor the environment give an identifier, also when   *)
(* the secret is missing too; it fails with ErrMissingClientSec when the   *)
(* identifier is there and the secret is not; otherwise it succeeds, and   *)
(* the Authenticator has a non-empty identifier and a non-empty secret.    *)
(***************************************************************************)
C5_NewValidates ==
    call.op = "New" =>
        /\ C5_NoID => call.out.auth = <<>> /\ call.out.err = ErrMissingClientID
        /\ ~C5_NoID /\ C5_NoSecret =>
               call.out.auth = <<>> /\ call.out.err = ErrMissingClientSec
        /\ ~C5_NoID /\ ~C5_NoSecret =>
               /\ call.out.err = NilErr
               /\ call.out.auth # <<>>
               /\ call.out.auth[1].config.ClientID # ""
               /\ call.out.auth[1].config.ClientSecret # ""

C5_Witness ==
    /\ call.op = "New"
    /\ C5_NoID
    /\ C5_NoSecret
    /\ call.in.opts # <<>>
    /\ call.out.err = ErrMissingClientID

C7_ScopesPersist ==
    auth # <<>> =>
        /\ auth[1].config.Scopes = given
        /\ call.op = "AuthURL" =>
               /\ Param(call.out.url, "scope") = Join(given)
               /\ Embeds(call.out.url, "state", call.in.state)
               /\ Embeds(call.out.url, "redirect_uri", auth[1].config.RedirectURL)
               /\ Param(call.out.url, "client_id") = <<auth[1].config.ClientID>>
               /\ Param(call.out.url, "access_type") = <<"offline">>

C7_Witness ==
    /\ call.op = "AuthURL"
    /\ call.in.scopes = <<>>
    /\ call.in.state = "state123"
    /\ Len(given) = 2
    /\ Param(call.out.url, "scope") = Join(given)
    /\ Param(call.out.url, "state") = <<"state123">>

\* what one call may change of an Authenticator
C10_Step ==
    auth # <<>> =>
        /\ auth' # <<>>
        /\ auth'[1].client = auth[1].client
        /\ auth'[1].config.ClientID = auth[1].config.ClientID
        /\ auth'[1].config.ClientSecret = auth[1].config.ClientSecret
        /\ auth'[1].config.RedirectURL = auth[1].config.RedirectURL
        /\ auth'[1].config.Endpoint = auth[1].config.Endpoint
        /\ auth'[1].config.ClientID # ""
        /\ auth'[1].config.ClientSecret # ""
        /\ auth'[1].config.Scopes # auth[1].config.Scopes =>
               call'.op = "AuthURL" /\ Len(call'.in.scopes) > 0
        /\ call'.op \in {"Token", "Client", "TokenSource"} => auth' = auth

(***************************************************************************)
(* C10: once New has returned an Authenticator, no call changes its client *)
(* identifier, client secret, redirect URL, endpoint URLs or HTTP client   *)
(* (identifier and secret stay non-empty); the scopes change only in an    *)
(* AuthURL call that supplies at least one scope; Token, Client and        *)
(* TokenSource change nothing.                                             *)
(***************************************************************************)
C10_ImmutableAfterNew == [][C10_Step]_vars

C10_Witness ==
    /\ call.op = "Token"
    /\ call.out.err = NilErr
    /\ auth # <<>>
    /\ Len(auth[1].config.Scopes) = 2

(***************************************************************************)
(* What a callback carries, read off its raw query alone.                  *)
(***************************************************************************)
HasParam(r, key) == \E i \in DOMAIN r.URL.RawQuery : r.URL.RawQuery[i].key = key

\* the value of the first key=... pair of the query, "" when there is none
FirstParam(r, key) ==
    IF HasParam(r, key)
    THEN LET first == CHOOSE i \in DOMAIN r.URL.RawQuery :
                          /\ r.URL.RawQuery[i].key = key
                          /\ \A j \in 1..(i - 1) : r.URL.RawQuery[j].key # key
         IN  r.URL.RawQuery[first].value
    ELSE ""

TokenReturned == call.op = "Token" /\ call.done

(***************************************************************************)
(* C1, as stated: whenever the callback's state differs from the expected  *)
(* state, Token returns ErrStateMismatch and a nil token, and it makes an  *)
(* exchange only when the two states are equal.                            *)
(***************************************************************************)
C1_MismatchGivesErrStateMismatch ==
    TokenReturned =>
        /\ FirstParam(call.in.r, "state") # call.in.state =>
               call.out.err = ErrStateMismatch /\ call.out.token = <<>>
        /\ call.out.exchanges # <<>> => FirstParam(call.in.r, "state") = call.in.state

(***************************************************************************)
(* C1, amended: whenever the callback's state differs from the expected    *)
(* state, Token returns a nil token and an error and makes no exchange;    *)
(* the error is ErrStateMismatch when the callback's error is empty and    *)
(* its code is not (otherwise it is the error of the earlier check).  An   *)
(* exchange is made only when the two states are equal.                    *)
(***************************************************************************)
C1_MismatchNeverExchanges ==
    TokenReturned =>
        /\ FirstParam(call.in.r, "state") # call.in.state =>
               /\ call.out.token = <<>>
               /\ call.out.err # NilErr
               /\ call.out.exchanges = <<>>
               /\ FirstParam(call.in.r, "error") = "" /\ FirstParam(call.in.r, "code") # ""
                      => call.out.err = ErrStateMismatch
        /\ call.out.exchanges # <<>> => FirstParam(call.in.r, "state") = call.in.state

C1_Witness ==
    /\ TokenReturned
    /\ HasParam(call.in.r, "state")
    /\ FirstParam(call.in.r, "state") # call.in.state
    /\ call.in.state # ""
    /\ FirstParam(call.in.r, "code") # ""
    /\ call.out.err = ErrStateMismatch
    /\ call.out.token = <<>>
    /\ call.out.exchanges = <<>>

(***************************************************************************)
(* C2, as stated: whenever the callback's query has an error parameter,    *)
(* Token fails with an error that is ErrAuthFailed and makes no exchange,  *)
(* whatever code and state are.                                            *)
(***************************************************************************)
C2_ErrorParamPresentFails ==
    TokenReturned /\ HasParam(call.in.r, "error") =>
        /\ ErrorsIs(call.out.err, ErrAuthFailed)
        /\ call.out.token = <<>>
        /\ call.out.exchanges = <<>>

(***************************************************************************)
(* C2, amended: whenever the (first) error parameter of the callback's     *)
(* query is not empty, Token fails with an error that is ErrAuthFailed and *)
(* whose message contains that value, and makes no exchange, whatever code *)
(* and state are; an error parameter that is empty counts as none.         *)
(***************************************************************************)
C2_NonEmptyErrorFails ==
    TokenReturned =>
        /\ FirstParam(call.in.r, "error") # "" =>
               /\ ErrorsIs(call.out.err, ErrAuthFailed)
               /\ FirstParam(call.in.r, "error") \in Range(call.out.err.text)
               /\ call.out.token = <<>>
               /\ call.out.exchanges = <<>>
        /\ FirstParam(call.in.r, "error") = "" => ~ErrorsIs(call.out.err, ErrAuthFailed)

C2_Witness ==
    /\ TokenReturned
    /\ FirstParam(call.in.r, "error") = "access_denied"
    /\ FirstParam(call.in.r, "code") # ""
    /\ FirstParam(call.in.r, "state") = call.in.state
    /\ ErrorsIs(call.out.err, ErrAuthFailed)
    /\ "access_denied" \in Range(call.out.err.text)
    /\ call.out.exchanges = <<>>

(***************************************************************************)
(* C3, as stated: with no error parameter and an absent or empty code      *)
(* Token returns ErrNoAccessCode, even if the states differ; and           *)
(* ErrStateMismatch is returned only when the query has no error parameter *)
(* and the code is not empty.                                              *)
(***************************************************************************)
C3_MismatchOnlyWithoutErrorParam ==
    TokenReturned =>
        /\ ~HasParam(call.in.r, "error") /\ FirstParam(call.in.r, "code") = ""
               => call.out.err = ErrNoAccessCode
        /\ call.out.err = ErrStateMismatch =>
               ~HasParam(call.in.r, "error") /\ FirstParam(call.in.r, "code") # ""

(***************************************************************************)
(* C3, amended: Token checks error, code, state in this order and reports  *)
(* the first check that fails: a non-empty error gives ErrAuthFailed; with *)
(* an absent or empty error, an absent or empty code gives ErrNoAccessCode *)
(* even if the states differ; ErrStateMismatch is returned only when the   *)
(* error is absent or empty, the code is not empty and the states differ.  *)
(***************************************************************************)
C3_FirstFailingCheck ==
    TokenReturned =>
        /\ FirstParam(call.in.r, "error") # "" => ErrorsIs(call.out.err, ErrAuthFailed)
        /\ FirstParam(call.in.r, "error") = "" /\ FirstParam(call.in.r, "code") = ""
               => call.out.err = ErrNoAccessCode
        /\ call.out.err = ErrStateMismatch =>
               /\ FirstParam(call.in.r, "error") = ""
               /\ FirstParam(call.in.r, "code") # ""
               /\ FirstParam(call.in.r, "state") # call.in.state

C3_Witness ==
    /\ TokenReturned
    /\ ~HasParam(call.in.r, "error")
    /\ FirstParam(call.in.r, "code") = ""
    /\ HasParam(call.in.r, "state")
    /\ FirstParam(call.in.r, "state") # call.in.state
    /\ call.out.err = ErrNoAccessCode

\* the callback passes the three checks of Token
C4_Valid ==
    /\ FirstParam(call.in.r, "error") = ""
    /\ FirstParam(call.in.r, "code") # ""
    /\ FirstParam(call.in.r, "state") = call.in.state

(***************************************************************************)
(* C4: for a callback with no error, a non-empty code and the expected     *)
(* state, Token makes exactly one exchange, of that code, at the token     *)
(* endpoint, through the Authenticator's own client and not the context's; *)
(* it returns either the token of the endpoint's answer and a nil error,   *)
(* or a nil token and a "token exchange failed" error wrapping the cause.  *)
(***************************************************************************)
C4_ExchangesThroughOwnClient ==
    TokenReturned /\ C4_Valid =>
        /\ Len(call.out.exchanges) = 1
        /\ call.out.exchanges[1].code = FirstParam(call.in.r, "code")
        /\ call.out.exchanges[1].url = TokenURL
        /\ call.out.exchanges[1].client = auth[1].client
        /\ \/ /\ call.in.answer.err = NilErr
              /\ call.out.err = NilErr
              /\ call.out.token # <<>>
              /\ call.out.token[1].AccessToken = call.in.answer.token[1].AccessToken
              /\ call.out.token[1].RefreshToken = call.in.answer.token[1].RefreshToken
           \/ /\ call.in.answer.err # NilErr
              /\ call.out.token = <<>>
              /\ call.out.err # NilErr
              /\ Head(call.out.err.text) = "spotify: token exchange failed: "
              /\ Tail(call.out.err.text) = call.in.answer.err.text
              /\ Range(call.in.answer.err.chain) \subseteq Range(call.out.err.chain)

C4_Witness ==
    /\ TokenReturned
    /\ C4_Valid
    /\ call.in.ctx # Background
    /\ auth[1].client = MockClient
    /\ call.out.exchanges[1].client = MockClient
    /\ call.out.err = NilErr
    /\ call.out.token[1].AccessToken = "test-access-token"
    /\ call.out.token[1].RefreshToken = "test-refresh-token"

(***************************************************************************)
(* C8: a Token call with a valid code and the expected state succeeds      *)
(* whenever the endpoint answers with a token, also when the call before   *)
(* it exchanged the same code; and two calls in a row with the same        *)
(* arguments and the same answer return the same.                          *)
(***************************************************************************)
C8_RepeatSucceeds ==
    /\ TokenReturned /\ C4_Valid /\ call.in.answer.err = NilErr =>
           call.out.err = NilErr /\ call.out.token = call.in.answer.token
    /\ TokenReturned /\ prev.op = "Token" /\ prev.in = call.in => call.out = prev.out

C8_Witness ==
    /\ TokenReturned
    /\ prev.op = "Token"
    /\ C4_Valid
    /\ prev.in = call.in
    /\ prev.out.err = NilErr
    /\ call.out.err = NilErr
    /\ call.out.token # <<>>

(***************************************************************************)
(* C9: a call of AuthURL with scopes that no other call overlaps returns a *)
(* URL with exactly its own scopes.  (That overlapping calls may not is    *)
(* the witness: two calls with different scopes, one of which returns a    *)
(* URL carrying the scopes of the other.)                                  *)
(***************************************************************************)
C9_SerializedOwnScopes ==
    gor # <<>> =>
        \A t \in Goroutines :
            gor[t].pc = "done" /\ ~gor[t].overlapped /\ Len(gor[t].scopes) > 0 =>
                Param(gor[t].url[1], "scope") = Join(gor[t].scopes)

C9_Witness ==
    /\ gor # <<>>
    /\ \E t, u \in Goroutines :
         /\ t # u
         /\ gor[t].pc = "done"
         /\ Len(gor[t].scopes) > 0
         /\ Len(gor[u].scopes) > 0
         /\ gor[u].scopes # gor[t].scopes
         /\ Param(gor[t].url[1], "scope") = Join(gor[u].scopes)
====
